---- MODULE Spec2Model ----
(***************************************************************************)
(* A model of diorama-js: the worker renderer (src/renderer/raytracing.js, *)
(* lines 1-199) and the Diorama class with its canvas registry             *)
(* (src/diorama.mjs and the second half of raytracing.js).                 *)
(*                                                                         *)
(* Numbers.  JavaScript doubles are modelled in fixed point: a real value  *)
(* v is held as the integer v * Unit.  Time stamps are whole milliseconds, *)
(* so deltaSeconds = (timeStamp - previousTimeStamp) / 1000 is held        *)
(* exactly, and so is the camera position.  Math.sqrt and the divisions of *)
(* the intersection and shading code truncate to 1/Unit.                   *)
(*                                                                         *)
(* undefined and null are the records Undefined and Null.                  *)
(***************************************************************************)
EXTENDS Integers, Sequences, FiniteSets, TLC

VARIABLES
    canvas,              \* raytracing.js:3   the OffscreenCanvas handed over, or Undefined
    drawBuffer,          \* raytracing.js:6   imageData.data, a sequence of bytes, or Undefined
    camera,              \* raytracing.js:14  Vector3 or Undefined
    scene,               \* raytracing.js:15  [shapes, lights] or Undefined
    animationRequestId,  \* raytracing.js:17  Undefined, Null or a frame request handle
    previousTimeStamp,   \* raytracing.js:18  Undefined or [ms |-> t]
    actions,             \* raytracing.js:20  the four direction flags
    clock,               \* the host's clock (performance.now and the frame time stamps), ms
    frameRequests,       \* number of callbacks requestAnimationFrame holds for the worker
    canvases,            \* diorama.mjs:3     the registry: canvas -> index of its Diorama
    dioramas,            \* the Diorama objects constructed so far, in order of construction
    lastOp               \* what the last handler did (observation only)

vars == <<canvas, drawBuffer, camera, scene, animationRequestId, previousTimeStamp,
          actions, clock, frameRequests, canvases, dioramas, lastOp>>

workerVars == <<canvas, drawBuffer, camera, scene, animationRequestId,
                previousTimeStamp, actions, clock, frameRequests>>

dioramaVars == <<canvases, dioramas>>

-----------------------------------------------------------------------------
(* Bounds of the model *)

\* the clock runs from 0 to MaxTime milliseconds
MaxTime == 2

\* a Diorama's scene holds at most MaxShapes spheres (loadScene is refused beyond)
MaxShapes == 2

-----------------------------------------------------------------------------
(* Values *)

\* one scene unit in fixed point; also the milliseconds in a second of animate
Unit == 1000

Undefined == [tag |-> "undefined"]

Null == [tag |-> "null"]

\* JavaScript truthiness of a handle-or-undefined-or-null value
Truthy(v) == v # Undefined /\ v # Null

Max(a, b) == IF a >= b THEN a ELSE b

Min(a, b) == IF a <= b THEN a ELSE b

\* Newton's iteration from above: the largest r with r * r <= n
RECURSIVE SqrtIter(_, _)
SqrtIter(n, x) ==
    LET y == (x + n \div x) \div 2
    IN  IF y >= x THEN x ELSE SqrtIter(n, y)

\* Math.sqrt of a value held at scale Unit * Unit, the result at scale Unit;
\* the iteration starts from a bound above the root
Sqrt(n) ==
    IF n <= 0 THEN 0
    ELSE IF n < 4000000 THEN SqrtIter(n, 2000)
    ELSE IF n < 64000000 THEN SqrtIter(n, 8000)
    ELSE SqrtIter(n, 46341)

Vector3(x, y, z) == [x |-> x, y |-> y, z |-> z]

difference(a, b) == Vector3(a.x - b.x, a.y - b.y, a.z - b.z)

dot(a, b) == (a.x * b.x + a.y * b.y + a.z * b.z) \div Unit

norm(v) == Sqrt(v.x * v.x + v.y * v.y + v.z * v.z)

Directions == {"up", "right", "down", "left"}

-----------------------------------------------------------------------------
(* The inputs the model draws from *)

\* the canvases a host can hand over: width, height in pixels, and the byte
\* every channel of its present content holds
Canvases ==
    { [id |-> 1, width |-> 3, height |-> 2, fill |-> 0],
      [id |-> 2, width |-> 2, height |-> 3, fill |-> 9] }

Sphere(c, r, col) == [center |-> c, radius |-> r, color |-> col]

AmbientLight(i) == [type |-> "AmbientLight", intensity |-> i]

DirectionalLight(i, d) == [type |-> "DirectionalLight", intensity |-> i, direction |-> d]

PointLight(i, p) == [type |-> "PointLight", intensity |-> i, position |-> p]

\* a sphere in front of the camera
Ball == Sphere(Vector3(0, 0, 3 * Unit), Unit, <<200, 0, 0>>)

\* a sphere around the camera: the camera is inside it
Dome == Sphere(Vector3(0, 0, Unit), 2 * Unit, <<0, 100, 200>>)

EmptyScene == [shapes |-> <<>>, lights |-> <<>>]

Scenes ==
    { EmptyScene,
      [shapes |-> <<Dome, Ball>>,
       lights |-> <<AmbientLight((Unit * 3) \div 5), AmbientLight((Unit * 3) \div 5),
                    PointLight(Unit \div 2, Vector3(Unit, Unit, 0))>>] }

\* the partial action maps of an actions message: no key, or one key
ActionMaps ==
    { [d \in {} |-> TRUE] } \cup
    { [d \in {k} |-> v] : k \in Directions, v \in BOOLEAN }

-----------------------------------------------------------------------------
(* The viewport that setCanvas derives from a canvas c (raytracing.js:50-67) *)

width(c) == c.width

height(c) == c.height

aspectRatio(c) == (width(c) * Unit) \div height(c)

vWidth(c) == IF aspectRatio(c) > Unit THEN Unit ELSE aspectRatio(c)

vHeight(c) == IF aspectRatio(c) > Unit THEN (Unit * Unit) \div aspectRatio(c) ELSE Unit

xMax(c) == (width(c) * Unit) \div 2

yMax(c) == (height(c) * Unit) \div 2

xScale(c) == vWidth(c) \div width(c)

yScale(c) == vHeight(c) \div height(c)

zDistance == Unit

\* context.getImageData(0, 0, width, height).data: four bytes a pixel
getImageData(c) == [i \in 1..(width(c) * height(c) * 4) |-> c.fill]

-----------------------------------------------------------------------------
(* computePixelColor and computePixelIntensity (raytracing.js:136-186) *)

\* the near plane and Number.MAX_SAFE_INTEGER (held as the largest 32-bit
\* integer: every root of the model is far below it)
TMin == Unit

MAX_SAFE_INTEGER == 2147483647

\* the quadratic of one sphere: whether the discriminant is >= 0, and its roots
intersect(cam, sphere, D) ==
    LET sphere_camera == difference(cam, sphere.center)
        a == dot(D, D)
        b == 2 * dot(sphere_camera, D)
        c == dot(sphere_camera, sphere_camera) - (sphere.radius * sphere.radius) \div Unit
        discriminant == b * b - 4 * a * c
        d == Sqrt(discriminant)
    IN  IF discriminant >= 0
        THEN [real |-> TRUE, t1 |-> ((-b + d) * Unit) \div (2 * a),
                             t2 |-> ((-b - d) * Unit) \div (2 * a)]
        ELSE [real |-> FALSE, t1 |-> 0, t2 |-> 0]

\* tClosest and sphereClosest before any sphere is scanned: both undefined
NoHit == [defined |-> FALSE, t |-> 0, sphere |-> 0]

\* !tClosest and if (tClosest): undefined and 0 are falsy
TruthyT(h) == h.defined /\ h.t # 0

\* the scan of one sphere (the body of the for loop), k its index in scene.shapes
scanSphere(cam, sc, D, tMin, tMax, h, k) ==
    LET r == intersect(cam, sc.shapes[k], D)
    IN  IF r.real /\ ((r.t1 > tMin /\ r.t1 < tMax) \/ (r.t2 > tMin /\ r.t2 < tMax))
        THEN LET t == Min(r.t1, r.t2)
             IN  IF ~TruthyT(h) \/ t < h.t
                 THEN [defined |-> TRUE, t |-> t, sphere |-> k]
                 ELSE h
        ELSE h

RECURSIVE scanSpheres(_, _, _, _, _, _, _)
scanSpheres(cam, sc, D, tMin, tMax, h, k) ==
    IF k > Len(sc.shapes) THEN h
    ELSE scanSpheres(cam, sc, D, tMin, tMax,
                     scanSphere(cam, sc, D, tMin, tMax, h, k), k + 1)

\* tClosest and sphereClosest after the loop over scene.shapes
closestHit(cam, sc, D, tMin, tMax) == scanSpheres(cam, sc, D, tMin, tMax, NoHit, 1)

\* the contribution of one light at point P with normal N
lightTerm(light, P, N) ==
    IF light.type = "AmbientLight" THEN light.intensity
    ELSE LET L == IF light.type = "DirectionalLight" THEN light.direction
                  ELSE difference(light.position, P)
             cosine == (dot(N, L) * Unit) \div ((norm(N) * norm(L)) \div Unit)
         IN  (light.intensity * Max(0, cosine)) \div Unit

RECURSIVE sumLights(_, _, _, _)
sumLights(lights, P, N, k) ==
    IF k > Len(lights) THEN 0
    ELSE lightTerm(lights[k], P, N) + sumLights(lights, P, N, k + 1)

computePixelIntensity(sc, P, N) == sumLights(sc.lights, P, N, 1)

\* the colour computePixelColor returns once the loop has left the hit h
\* (the if (tClosest) of line 158), its three channels at scale Unit
shade(cam, sc, D, h) ==
    IF TruthyT(h)
    THEN LET sphereClosest == sc.shapes[h.sphere]
             P == Vector3(cam.x + (h.t * D.x) \div Unit,
                          cam.y + (h.t * D.y) \div Unit,
                          cam.z + (h.t * D.z) \div Unit)
             C_P == difference(P, sphereClosest.center)
             C_P_length == norm(C_P)
             N == Vector3((C_P.x * Unit) \div C_P_length,
                          (C_P.y * Unit) \div C_P_length,
                          (C_P.z * Unit) \div C_P_length)
             i == computePixelIntensity(sc, P, N)
         IN  <<sphereClosest.color[1] * i, sphereClosest.color[2] * i,
               sphereClosest.color[3] * i>>
    ELSE <<255 * Unit, 255 * Unit, 255 * Unit>>

\* the colour of the ray D
computePixelColor(cam, sc, D, tMin, tMax) ==
    shade(cam, sc, D, closestHit(cam, sc, D, tMin, tMax))

-----------------------------------------------------------------------------
(* paint and paintPixel (raytracing.js:122-134, 188-199) *)

\* a store into the Uint8ClampedArray: round to the nearest integer (a tie to
\* the even one) and clamp to 0..255; v is at scale Unit
ToUint8Clamp(v) ==
    LET f == v \div Unit
        r == v % Unit
        n == IF 2 * r < Unit THEN f
             ELSE IF 2 * r > Unit THEN f + 1
             ELSE IF f % 2 = 0 THEN f ELSE f + 1
    IN  Max(0, Min(255, n))

\* a bounds check that lets the upper bounds through (<= for <)
inBoundsInclusive(c, x, y) ==
    (x >= 0 /\ x <= width(c) * Unit) /\ (y >= 0 /\ y <= height(c) * Unit)

\* the condition of paintPixel's if, for the canvas c: x and y at scale Unit
inBounds(c, x, y) ==
    (x >= 0 /\ x < width(c) * Unit) /\ (y >= 0 /\ y < height(c) * Unit)

\* whether paintPixel(cx, cy, ...) takes the branch that stores.  Without a
\* canvas xMax is undefined and x is NaN: every comparison is false.
pixelWritten(c, cx, cy) ==
    /\ c # Undefined
    /\ inBounds(c, xMax(c) + cx, yMax(c) - cy)

\* indexOffset, counted from 0, at scale Unit
indexOffset(c, cx, cy) == ((yMax(c) - cy) * width(c) + (xMax(c) + cx)) * 4

\* drawBuffer[i] = v with i at scale Unit: a store at an index that is no
\* whole number, or beyond the array, is ignored
store(buf, i, v) ==
    IF i % Unit = 0 /\ i \div Unit >= 0 /\ i \div Unit < Len(buf)
    THEN [buf EXCEPT ![i \div Unit + 1] = v]
    ELSE buf

\* the buffer after paintPixel(cx, cy, rgb)
paintPixel(c, buf, cx, cy, rgb) ==
    IF pixelWritten(c, cx, cy)
    THEN LET o == indexOffset(c, cx, cy)
         IN  store(store(store(store(buf, o, ToUint8Clamp(rgb[1])),
                               o + Unit, ToUint8Clamp(rgb[2])),
                         o + 2 * Unit, ToUint8Clamp(rgb[3])),
                   o + 3 * Unit, 255)
    ELSE buf

\* the rows the outer loop of paint visits: cy = -yMax, -yMax + 1, ... < yMax
paintRows(c) ==
    [k \in 1..Cardinality({j \in 0..height(c) : -yMax(c) + j * Unit < yMax(c)})
        |-> -yMax(c) + (k - 1) * Unit]

\* the columns the inner loop visits: cx = -xMax, -xMax + 1, ... < xMax
paintColumns(c) ==
    [k \in 1..Cardinality({j \in 0..width(c) : -xMax(c) + j * Unit < xMax(c)})
        |-> -xMax(c) + (k - 1) * Unit]

\* the coordinates (cx, cy) in the order paint visits them
paintCoords(c) ==
    LET rows == paintRows(c)
        cols == paintColumns(c)
    IN  [k \in 1..(Len(rows) * Len(cols)) |->
            <<cols[((k - 1) % Len(cols)) + 1], rows[((k - 1) \div Len(cols)) + 1]>>]

\* the ray direction of paint for the pixel (cx, cy)
rayDirection(cam, c, cx, cy) ==
    LET V == Vector3((cx * xScale(c)) \div Unit + cam.x,
                     (cy * yScale(c)) \div Unit + cam.y, zDistance)
    IN  difference(V, cam)

\* the body of paint's inner loop
paintStep(cam, sc, c, buf, cx, cy) ==
    paintPixel(c, buf, cx, cy,
               computePixelColor(cam, sc, rayDirection(cam, c, cx, cy),
                                 TMin, MAX_SAFE_INTEGER))

RECURSIVE paintLoop(_, _, _, _, _, _)
paintLoop(cam, sc, c, buf, coords, k) ==
    IF k > Len(coords) THEN buf
    ELSE paintLoop(cam, sc, c,
                   paintStep(cam, sc, c, buf, coords[k][1], coords[k][2]),
                   coords, k + 1)

\* paint(): the buffer it leaves, whether it threw, and what it did.
\*   no canvas: the loops run no iteration (their bounds are NaN) and
\*              context.putImageData throws, context being undefined;
\*   no scene:  computePixelColor throws at the first pixel (scene.shapes).
paint(cam, sc, c, buf) ==
    IF c = Undefined
    THEN [buffer |-> buf, threw |-> TRUE, passes |-> 0, written |-> <<>>, skipped |-> <<>>]
    ELSE LET coords == paintCoords(c)
         IN  IF Len(coords) > 0 /\ (cam = Undefined \/ sc = Undefined)
             THEN [buffer |-> buf, threw |-> TRUE, passes |-> 0,
                   written |-> <<>>, skipped |-> <<>>]
             ELSE [buffer  |-> paintLoop(cam, sc, c, buf, coords, 1),
                   threw   |-> FALSE,
                   passes  |-> 1,
                   written |-> SelectSeq(coords,
                                  LAMBDA p : pixelWritten(c, p[1], p[2])),
                   skipped |-> SelectSeq(coords,
                                  LAMBDA p : ~pixelWritten(c, p[1], p[2]))]

\* what a handler that paints nothing reports
NoPaint == [passes |-> 0, written |-> <<>>, skipped |-> <<>>]

-----------------------------------------------------------------------------
(* The worker renderer's handlers (raytracing.js:33-120) *)

\* the handle requestAnimationFrame returns: a non-zero number, of which the
\* code reads only the truthiness
Handle == [handle |-> 1]

AllInactive(acts) == \A d \in Directions : acts[d] = FALSE

\* Object.assign(actions, a)
assign(acts, a) == [d \in Directions |-> IF d \in DOMAIN a THEN a[d] ELSE acts[d]]

\* the camera after update(deltaSeconds); deltaSeconds at scale Unit
update(cam, acts, deltaSeconds) ==
    [cam EXCEPT
        !.x = @ + ((IF acts.right THEN 1 ELSE 0) + (IF acts.left THEN -1 ELSE 0))
                    * deltaSeconds,
        !.y = @ + ((IF acts.up THEN 1 ELSE 0) + (IF acts.down THEN -1 ELSE 0))
                    * deltaSeconds]

\* (timeStamp - previousTimeStamp) / 1000 seconds, at scale Unit: the milliseconds
deltaOf(timeStamp, previous) == ((timeStamp - previous.ms) * Unit) \div 1000

Report(name, threw, scheduled, p) ==
    [op |-> name, threw |-> threw, scheduled |-> scheduled,
     passes |-> p.passes, written |-> p.written, skipped |-> p.skipped]

setCanvas(c) ==
    /\ canvas' = c
    /\ camera' = Vector3(0, 0, 0)
    /\ drawBuffer' = getImageData(c)
    /\ lastOp' = Report("setCanvas", FALSE, 0, NoPaint)
    /\ UNCHANGED <<scene, animationRequestId, previousTimeStamp, actions, clock,
                   frameRequests, canvases, dioramas>>

\* the scene with its vectors rebuilt as Vector3 objects
rebuilt(s) ==
    [shapes |-> [k \in 1..Len(s.shapes) |->
                    [s.shapes[k] EXCEPT !.center = Vector3(@.x, @.y, @.z)]],
     lights |-> [k \in 1..Len(s.lights) |->
                    IF s.lights[k].type = "DirectionalLight"
                    THEN [s.lights[k] EXCEPT !.direction = Vector3(@.x, @.y, @.z)]
                    ELSE IF s.lights[k].type = "PointLight"
                    THEN [s.lights[k] EXCEPT !.position = Vector3(@.x, @.y, @.z)]
                    ELSE s.lights[k]]]

setScene(s) ==
    LET p == paint(camera, rebuilt(s), canvas, drawBuffer)
    IN  /\ scene' = rebuilt(s)
        /\ drawBuffer' = p.buffer
        /\ lastOp' = Report("setScene", p.threw, 0, p)
        /\ UNCHANGED <<canvas, camera, animationRequestId, previousTimeStamp, actions,
                       clock, frameRequests, canvases, dioramas>>

\* a setActions that requests a frame callback whatever animationRequestId holds
setActionsAlways(a, now) ==
    /\ actions' = assign(actions, a)
    /\ clock' = now
    /\ previousTimeStamp' = [ms |-> now]
    /\ animationRequestId' = Handle
    /\ frameRequests' = frameRequests + 1
    /\ lastOp' = Report("setActions", FALSE, 1, NoPaint)
    /\ UNCHANGED <<canvas, drawBuffer, camera, scene, canvases, dioramas>>

\* setActions(a), performance.now() returning now
setActions(a, now) ==
    /\ actions' = assign(actions, a)
    /\ clock' = now
    /\ IF ~Truthy(animationRequestId)
       THEN /\ previousTimeStamp' = [ms |-> now]
            /\ animationRequestId' = Handle
            /\ frameRequests' = frameRequests + 1
            /\ lastOp' = Report("setActions", FALSE, 1, NoPaint)
       ELSE /\ UNCHANGED <<previousTimeStamp, animationRequestId, frameRequests>>
            /\ lastOp' = Report("setActions", FALSE, 0, NoPaint)
    /\ UNCHANGED <<canvas, drawBuffer, camera, scene, canvases, dioramas>>

\* an idle tick that returns without clearing animationRequestId
animateIdleKeepsId(timeStamp) ==
    /\ AllInactive(actions)
    /\ lastOp' = Report("animate", FALSE, 0, NoPaint)
    /\ UNCHANGED <<canvas, drawBuffer, camera, scene, previousTimeStamp, actions,
                   canvases, dioramas, animationRequestId>>

\* a tick whose every direction is inactive
animateIdle(timeStamp) ==
    /\ AllInactive(actions)
    /\ animationRequestId' = Null
    /\ lastOp' = Report("animate", FALSE, 0, NoPaint)
    /\ UNCHANGED <<canvas, drawBuffer, camera, scene, previousTimeStamp, actions,
                   canvases, dioramas>>

\* a tick with an active direction.  update throws when there is no camera
\* (camera.x of undefined), after the next tick was requested and the time
\* stamp recorded; paint may throw after the camera has moved.
animateActive(timeStamp) ==
    /\ ~AllInactive(actions)
    /\ animationRequestId' = Handle
    /\ previousTimeStamp' = [ms |-> timeStamp]
    /\ IF camera = Undefined
       THEN /\ lastOp' = Report("animate", TRUE, 1, NoPaint)
            /\ UNCHANGED <<camera, drawBuffer>>
       ELSE LET moved == update(camera, actions, deltaOf(timeStamp, previousTimeStamp))
                p == paint(moved, scene, canvas, drawBuffer)
            IN  /\ camera' = moved
                /\ drawBuffer' = p.buffer
                /\ lastOp' = Report("animate", p.threw, 1, p)
    /\ UNCHANGED <<canvas, scene, actions, canvases, dioramas>>

\* a frame callback whose idle branch leaves a callback with the host
animateIdleRequeues(timeStamp) ==
    /\ frameRequests > 0
    /\ clock' = timeStamp
    /\ \/ animateIdle(timeStamp) /\ frameRequests' = frameRequests
       \/ animateActive(timeStamp) /\ frameRequests' = frameRequests - 1 + 1

\* the frame callback (t) => animate(t), run by the host with time stamp
\* timeStamp; the callback leaves the host's list when it runs
animate(timeStamp) ==
    /\ frameRequests > 0
    /\ clock' = timeStamp
    /\ \/ animateIdle(timeStamp) /\ frameRequests' = frameRequests - 1
       \/ animateActive(timeStamp) /\ frameRequests' = frameRequests - 1 + 1

\* the messages a host posts
Messages ==
    [canvas : Canvases] \cup [scene : Scenes] \cup [actions : ActionMaps]

onmessage(data) ==
    \/ /\ "canvas" \in DOMAIN data
       /\ setCanvas(data.canvas)
    \/ /\ "canvas" \notin DOMAIN data /\ "scene" \in DOMAIN data
       /\ setScene(data.scene)
    \/ /\ "canvas" \notin DOMAIN data /\ "scene" \notin DOMAIN data
       /\ "actions" \in DOMAIN data
       /\ \E now \in clock..MaxTime : setActions(data.actions, now)

Times == clock..MaxTime

Init ==
    /\ canvas = Undefined
    /\ drawBuffer = Undefined
    /\ camera = Undefined
    /\ scene = Undefined
    /\ animationRequestId = Undefined
    /\ previousTimeStamp = Undefined
    /\ actions = [d \in Directions |-> FALSE]
    /\ clock = 0
    /\ frameRequests = 0
    /\ canvases = <<>>
    /\ dioramas = <<>>
    /\ lastOp = Report("init", FALSE, 0, NoPaint)

Next ==
    \/ \E data \in Messages : onmessage(data)
    \/ \E timeStamp \in Times : animate(timeStamp)

Spec == Init /\ [][Next]_vars

-----------------------------------------------------------------------------
(* The animation driver under a host that runs the frame callbacks it holds *)

\* a canvas of one pixel: a render pass over it is one call of paintPixel
OnePixel == [id |-> 3, width |-> 1, height |-> 1, fill |-> 0]

\* the messages of a host that hands over the one-pixel canvas, loads the
\* empty scene and sends every actions message
DriverMessages ==
    [canvas : {OnePixel}] \cup [scene : {EmptyScene}] \cup [actions : ActionMaps]

DriverNext ==
    \/ \E data \in DriverMessages : onmessage(data)
    \/ \E timeStamp \in Times : animate(timeStamp)

\* requestAnimationFrame: a callback the host holds is eventually run
DriverSpec ==
    Init /\ [][DriverNext]_vars /\ WF_vars(\E timeStamp \in Times : animate(timeStamp))

-----------------------------------------------------------------------------
(* paintPixel on its own: the pixel-grid coordinates around a canvas *)

\* the colours paintPixel is handed: the background, and a shaded colour with
\* a fractional and an overbright channel
PixelColors == { <<255 * Unit, 255 * Unit, 255 * Unit>>, <<100 * Unit + 500, 0, 300 * Unit>> }

\* cx = -xMax + k and cy = -yMax + k, from one pixel before the grid to one
\* pixel past its last; without a canvas, the coordinates of a 2 x 2 grid
PixelCoords ==
    IF canvas = Undefined
    THEN {<<x * Unit, y * Unit>> : x \in -2..2, y \in -2..2}
    ELSE {<<-xMax(canvas) + i * Unit, -yMax(canvas) + j * Unit>> :
             i \in -1..width(canvas), j \in -1..height(canvas)}

\* one call paintPixel(cx, cy, rgb) on the worker's buffer
callPaintPixel(cx, cy, rgb) ==
    /\ drawBuffer' = paintPixel(canvas, drawBuffer, cx, cy, rgb)
    /\ lastOp' = [op |-> "paintPixel", threw |-> FALSE, cx |-> cx, cy |-> cy, rgb |-> rgb]
    /\ UNCHANGED <<canvas, camera, scene, animationRequestId, previousTimeStamp,
                   actions, clock, frameRequests, canvases, dioramas>>

PixelNext ==
    \/ \E c \in Canvases : setCanvas(c)
    \/ \E p \in PixelCoords, rgb \in PixelColors : callPaintPixel(p[1], p[2], rgb)

PixelSpec == Init /\ [][PixelNext]_vars

-----------------------------------------------------------------------------
(* The Diorama class and its registry                                      *)
(* (diorama.mjs:3-15 and raytracing.js:203-465)                            *)

\* the scene documents loadScene is handed, as DOMParser leaves them: whether
\* the text parsed, the Transform elements and the light elements with their
\* attributes.  A number attribute is <<v>> with v at scale Unit, or <<>> when
\* the attribute is absent.
Transform(t, r, col) == [translation |-> t, radius |-> r, diffuseColor |-> col]

SceneDocs ==
    { [ok |-> FALSE, transforms |-> <<>>, lights |-> <<>>],
      [ok |-> TRUE, transforms |-> <<>>, lights |-> <<>>],
      [ok |-> TRUE,
       transforms |-> <<Transform(<<0, 0, 3 * Unit>>, <<>>, <<Unit, 0, 0>>)>>,
       lights |-> <<[nodeName |-> "DirectionalLight", intensity |-> Unit \div 2,
                     ambientIntensity |-> Unit \div 5,
                     direction |-> <<0, 0, -Unit>>]>>],
      [ok |-> TRUE,
       transforms |-> <<Transform(<<0, 0, Unit>>, <<2 * Unit + 500>>,
                                  <<0, Unit \div 2, Unit>>)>>,
       lights |-> <<[nodeName |-> "PointLight", intensity |-> Unit \div 2,
                     location |-> <<Unit, Unit, 0>>]>>] }

\* parseVector3 of an attribute already split into its three numbers
parseVector3(v) == Vector3(v[1], v[2], v[3])

\* parseInt(attribute) || 1, at scale Unit
parseRadius(attr) ==
    IF attr = <<>> \/ attr[1] \div Unit = 0 THEN Unit ELSE (attr[1] \div Unit) * Unit

\* Math.floor(255 * parseFloat(c)) of each colour component
parseColor(col) == [k \in 1..3 |-> (255 * col[k]) \div Unit]

\* the shape loadScene pushes for one Transform element
shapeOf(t) ==
    Sphere(parseVector3(t.translation), parseRadius(t.radius), parseColor(t.diffuseColor))

\* the lights loadScene pushes for one light element
lightsOf(l) ==
    IF l.nodeName = "DirectionalLight"
    THEN (IF l.ambientIntensity # 0 THEN <<AmbientLight(l.ambientIntensity)>> ELSE <<>>)
         \o <<DirectionalLight(l.intensity, parseVector3(l.direction))>>
    ELSE <<PointLight(l.intensity, parseVector3(l.location))>>

RECURSIVE pushLights(_, _, _)
pushLights(lights, elements, k) ==
    IF k > Len(elements) THEN lights
    ELSE pushLights(lights \o lightsOf(elements[k]), elements, k + 1)

\* this.#scene after the two loops of loadScene have pushed doc's elements
pushed(sc, doc) ==
    [shapes |-> sc.shapes \o [k \in 1..Len(doc.transforms) |-> shapeOf(doc.transforms[k])],
     lights |-> pushLights(sc.lights, doc.lights, 1)]

\* new Diorama(canvas)
Diorama(c) ==
    [canvas |-> c,
     drawBuffer |-> getImageData(c),
     camera |-> Vector3(0, 0, 0),
     scene |-> EmptyScene,
     actions |-> [d \in Directions |-> FALSE],
     animationRequestId |-> Null,
     previousTimeStamp |-> [ms |-> 0],
     frameRequests |-> 0]     \* the callbacks requestAnimationFrame holds for it

\* a lookup that finds no canvas (the registry asked with the wrong key)
hasNever(c) == FALSE

\* canvases.has(c)
has(c) == c \in DOMAIN canvases

\* initializeDiorama(c): c is a canvas, or null
initializeDiorama(c) ==
    /\ IF c = Null \/ has(c)
       THEN /\ UNCHANGED <<canvases, dioramas>>
            /\ lastOp' = [op |-> "initializeDiorama", threw |-> TRUE, canvas |-> c,
                          returned |-> 0]
       ELSE /\ dioramas' = Append(dioramas, Diorama(c))
            /\ canvases' = [k \in DOMAIN canvases \cup {c} |->
                               IF k = c THEN Len(dioramas) + 1 ELSE canvases[k]]
            /\ lastOp' = [op |-> "initializeDiorama", threw |-> FALSE, canvas |-> c,
                          returned |-> Len(dioramas) + 1]
    /\ UNCHANGED workerVars

\* dioramas[i].loadScene(doc); #draw is paint on the Diorama's own fields
loadScene(i, doc) ==
    /\ Len(dioramas[i].scene.shapes) + Len(doc.transforms) <= MaxShapes
    /\ IF ~doc.ok
       THEN /\ UNCHANGED dioramas
            /\ lastOp' = [op |-> "loadScene", threw |-> TRUE, diorama |-> i, doc |-> doc]
       ELSE LET d == dioramas[i]
                sc == pushed(d.scene, doc)
                p == paint(d.camera, sc, d.canvas, d.drawBuffer)
            IN  /\ dioramas' = [dioramas EXCEPT ![i] =
                                   [d EXCEPT !.scene = sc, !.drawBuffer = p.buffer]]
                /\ lastOp' = [op |-> "loadScene", threw |-> p.threw, diorama |-> i,
                              doc |-> doc]
    /\ UNCHANGED <<canvases>>
    /\ UNCHANGED workerVars

DioramaNext ==
    \/ \E c \in Canvases \cup {Null} : initializeDiorama(c)
    \/ \E i \in 1..Len(dioramas), doc \in SceneDocs : loadScene(i, doc)

DioramaSpec == Init /\ [][DioramaNext]_vars

-----------------------------------------------------------------------------
(* The Diorama's animation driver: setAction and #animate                  *)
(* (raytracing.js:266-283, 425-446; diorama.mjs:63-80, 163-184)            *)

\* the key names setAction is called with: the four arrows and another key
Keys == {"ArrowUp", "ArrowRight", "ArrowDown", "ArrowLeft", "Enter"}

\* the switch of setAction
switched(acts, action, value) ==
    IF action = "ArrowUp" THEN [acts EXCEPT !.up = value]
    ELSE IF action = "ArrowRight" THEN [acts EXCEPT !.right = value]
    ELSE IF action = "ArrowDown" THEN [acts EXCEPT !.down = value]
    ELSE IF action = "ArrowLeft" THEN [acts EXCEPT !.left = value]
    ELSE acts

\* dioramas[i].setAction(action, value), performance.now() returning now
setAction(i, action, value, now) ==
    /\ LET d == dioramas[i]
           acts == switched(d.actions, action, value)
       IN  IF ~Truthy(d.animationRequestId)
           THEN /\ dioramas' = [dioramas EXCEPT ![i] =
                                   [d EXCEPT !.actions = acts,
                                             !.previousTimeStamp = [ms |-> now],
                                             !.animationRequestId = Handle,
                                             !.frameRequests = @ + 1]]
                /\ lastOp' = [op |-> "setAction", threw |-> FALSE, diorama |-> i,
                              scheduled |-> 1, passes |-> 0]
           ELSE /\ dioramas' = [dioramas EXCEPT ![i] = [d EXCEPT !.actions = acts]]
                /\ lastOp' = [op |-> "setAction", threw |-> FALSE, diorama |-> i,
                              scheduled |-> 0, passes |-> 0]
    /\ clock' = now
    /\ UNCHANGED <<canvas, drawBuffer, camera, scene, animationRequestId,
                   previousTimeStamp, actions, frameRequests, canvases>>

\* the frame callback (t) => this.#animate(t) of dioramas[i]
Diorama_animate(i, timeStamp) ==
    /\ dioramas[i].frameRequests > 0
    /\ clock' = timeStamp
    /\ LET d == dioramas[i]
       IN  IF AllInactive(d.actions)
           THEN /\ dioramas' = [dioramas EXCEPT ![i] =
                                   [d EXCEPT !.animationRequestId = Null,
                                             !.frameRequests = @ - 1]]
                /\ lastOp' = [op |-> "Diorama.animate", threw |-> FALSE, diorama |-> i,
                              scheduled |-> 0, passes |-> 0]
           ELSE LET moved == update(d.camera, d.actions,
                                    deltaOf(timeStamp, d.previousTimeStamp))
                    p == paint(moved, d.scene, d.canvas, d.drawBuffer)
                IN  /\ dioramas' = [dioramas EXCEPT ![i] =
                                       [d EXCEPT !.animationRequestId = Handle,
                                                 !.frameRequests = @ - 1 + 1,
                                                 !.previousTimeStamp = [ms |-> timeStamp],
                                                 !.camera = moved,
                                                 !.drawBuffer = p.buffer]]
                    /\ lastOp' = [op |-> "Diorama.animate", threw |-> p.threw,
                                  diorama |-> i, scheduled |-> 1, passes |-> p.passes]
    /\ UNCHANGED <<canvas, drawBuffer, camera, scene, animationRequestId,
                   previousTimeStamp, actions, frameRequests, canvases>>

\* a page that makes a Diorama on the one-pixel canvas, forwards key events to
\* it and runs its frame callbacks
DioramaDriverNext ==
    \/ \E c \in {OnePixel, Null} : initializeDiorama(c)
    \/ \E i \in 1..Len(dioramas), action \in Keys, value \in BOOLEAN, now \in Times :
          setAction(i, action, value, now)
    \/ \E i \in 1..Len(dioramas), timeStamp \in Times : Diorama_animate(i, timeStamp)

DioramaDriverSpec ==
    /\ Init /\ [][DioramaDriverNext]_vars
    /\ WF_vars(\E i \in 1..Len(dioramas), timeStamp \in Times : Diorama_animate(i, timeStamp))

-----------------------------------------------------------------------------
(* Claims *)

\* no direction is active
NoneActive(acts) == \A d \in Directions : ~acts[d]

\* the byte of channel k (1 red, 2 green, 3 blue, 4 alpha) of the pixel in
\* row y and column x of a buffer over the canvas c
Channel(c, buf, x, y, k) == buf[(y * width(c) + x) * 4 + k]

\* every pixel of the buffer holds the background colour
AllBackground(c, buf) ==
    \A y \in 0..(height(c) - 1), x \in 0..(width(c) - 1), k \in 1..3 :
        Channel(c, buf, x, y, k) = 255

\* C1: a tick that starts with every direction inactive leaves the camera and
\* the buffer alone, renders nothing, requests no further tick and clears
\* animationRequestId.
C1_IdleTick ==
    [][(lastOp'.op = "animate" /\ NoneActive(actions)) =>
          /\ camera' = camera
          /\ drawBuffer' = drawBuffer
          /\ lastOp'.passes = 0
          /\ lastOp'.scheduled = 0
          /\ ~lastOp'.threw
          /\ frameRequests' = frameRequests - 1
          /\ animationRequestId' = Null]_vars

\* C1 witness: an idle tick has run after the camera had moved.
C1_Witness ==
    /\ lastOp.op = "animate"
    /\ lastOp.scheduled = 0
    /\ animationRequestId = Null
    /\ camera # Undefined
    /\ camera # Vector3(0, 0, 0)

\* C2: a tick that starts with an active direction moves the camera by
\* deltaSeconds along each axis (opposite directions cancelling), performs
\* exactly one full render pass and requests exactly one further tick.
C2_ActiveTick ==
    [][(lastOp'.op = "animate" /\ ~NoneActive(actions)) =>
          LET deltaSeconds == ((clock' - previousTimeStamp.ms) * Unit) \div 1000
              dx == (IF actions.right THEN 1 ELSE 0) - (IF actions.left THEN 1 ELSE 0)
              dy == (IF actions.up THEN 1 ELSE 0) - (IF actions.down THEN 1 ELSE 0)
          IN  /\ camera # Undefined
              /\ camera'.x = camera.x + dx * deltaSeconds
              /\ camera'.y = camera.y + dy * deltaSeconds
              /\ ~lastOp'.threw
              /\ lastOp'.passes = 1
              /\ lastOp'.scheduled = 1
              /\ frameRequests' = frameRequests]_vars

\* only "right" is active
OnlyRight(acts) == \A d \in Directions : acts[d] = (d = "right")

\* C3: while only "right" is active and the driver runs, the camera's x keeps
\* its distance to the time stamp of the last tick (so that after the tick at
\* Tn it has grown by (Tn - T0)/1000 since the baseline T0, however the interval
\* was split into ticks), and its y does not change.
C3_Composable ==
    [][(OnlyRight(actions) /\ Truthy(animationRequestId) /\ OnlyRight(actions')) =>
          IF lastOp'.op = "animate"
          THEN /\ camera # Undefined
               /\ camera'.x - (previousTimeStamp'.ms * Unit) \div 1000
                    = camera.x - (previousTimeStamp.ms * Unit) \div 1000
               /\ camera'.y = camera.y
          ELSE camera = Undefined \/ camera' = camera]_vars

\* the roots of the spheres of sc on the ray D that lie strictly inside (tMin, tMax)
QualifyingRoots(cam, sc, D, tMin, tMax) ==
    UNION { LET r == intersect(cam, sc.shapes[k], D)
            IN  IF r.real THEN {t \in {r.t1, r.t2} : t > tMin /\ t < tMax} ELSE {}
            : k \in 1..Len(sc.shapes) }

\* C4: for every ray paint casts, computePixelColor reports a hit exactly when
\* some sphere has a root strictly inside (tMin, tMax), and the hit parameter
\* it chooses is the smallest such root.
C4_NearestHit ==
    (canvas # Undefined /\ scene # Undefined) =>
        \A k \in 1..Len(paintCoords(canvas)) :
            LET p == paintCoords(canvas)[k]
                D == rayDirection(camera, canvas, p[1], p[2])
                Q == QualifyingRoots(camera, scene, D, TMin, MAX_SAFE_INTEGER)
                h == closestHit(camera, scene, D, TMin, MAX_SAFE_INTEGER)
            IN  /\ TruthyT(h) <=> Q # {}
                /\ TruthyT(h) => (h.t \in Q /\ \A t \in Q : h.t <= t)

\* C5: after a render pass over a scene with no spheres every pixel of the
\* buffer holds the background colour.
C5_Background ==
    (lastOp.op \in {"setScene", "animate"} /\ lastOp.passes = 1 /\ scene.shapes = <<>>) =>
        AllBackground(canvas, drawBuffer)

\* C6: a render pass that a tick triggers before any scene was loaded completes
\* without an error and leaves the background colour in every pixel.
C6_NoScene ==
    (lastOp.op = "animate" /\ lastOp.scheduled = 1 /\ canvas # Undefined
        /\ scene = Undefined) =>
        /\ ~lastOp.threw
        /\ lastOp.passes = 1
        /\ AllBackground(canvas, drawBuffer)

\* the pixel offsets (row * width + column) a render pass wrote, in order
WrittenOffsets(c, written) ==
    [k \in 1..Len(written) |->
        ((yMax(c) - written[k][2]) \div Unit) * width(c)
            + (xMax(c) + written[k][1]) \div Unit]

\* C7: a render pass never takes the skipping branch of paintPixel, and writes
\* every pixel of the buffer exactly once.
C7_EveryPixelOnce ==
    (lastOp.op \in {"setScene", "animate"} /\ lastOp.passes = 1) =>
        /\ lastOp.skipped = <<>>
        /\ \A o \in 0..(width(canvas) * height(canvas) - 1) :
              Cardinality({k \in 1..Len(lastOp.written) :
                              WrittenOffsets(canvas, lastOp.written)[k] = o}) = 1

\* C8: paintPixel changes nothing when the mapped coordinate is outside
\* [0, width) x [0, height) (x = width and y = height included, and when no
\* canvas is bound); otherwise it writes the four bytes at (y * width + x) * 4,
\* the alpha byte being 255, and changes no other byte.
C8_PaintPixel ==
    [][lastOp'.op = "paintPixel" =>
          IF canvas = Undefined THEN drawBuffer' = drawBuffer
          ELSE LET x == (xMax(canvas) + lastOp'.cx) \div Unit
                   y == (yMax(canvas) - lastOp'.cy) \div Unit
                   o == (y * width(canvas) + x) * 4
               IN  IF x >= 0 /\ x < width(canvas) /\ y >= 0 /\ y < height(canvas)
                   THEN /\ Len(drawBuffer') = Len(drawBuffer)
                        /\ \A i \in 1..Len(drawBuffer) :
                              i \notin (o + 1)..(o + 4) => drawBuffer'[i] = drawBuffer[i]
                        /\ \A k \in 1..3 :
                              drawBuffer'[o + k] = ToUint8Clamp(lastOp'.rgb[k])
                        /\ drawBuffer'[o + 4] = 255
                   ELSE drawBuffer' = drawBuffer]_vars

\* C8 witness: paintPixel was called for the row one past the last (y = height)
\* on a buffer earlier calls had written to.
C8_Witness ==
    /\ lastOp.op = "paintPixel"
    /\ canvas # Undefined
    /\ yMax(canvas) - lastOp.cy = height(canvas) * Unit
    /\ drawBuffer # getImageData(canvas)
    /\ \E i \in 1..Len(drawBuffer) : i % 4 = 0 /\ drawBuffer[i] = 255

\* C9: after a scene load the Diorama's spheres and lights are exactly those of
\* the document just loaded, in its order, and nothing of earlier loads.
C9_Replaced ==
    (lastOp.op = "loadScene" /\ ~lastOp.threw) =>
        dioramas[lastOp.diorama].scene = pushed(EmptyScene, lastOp.doc)

\* the registry maps each canvas to a Diorama built on that canvas, and no two
\* Dioramas were built on one canvas
RegistryConsistent ==
    /\ \A c \in DOMAIN canvases :
          canvases[c] \in 1..Len(dioramas) /\ dioramas[canvases[c]].canvas = c
    /\ \A i, j \in 1..Len(dioramas) :
          dioramas[i].canvas = dioramas[j].canvas => i = j

\* C10: initializeDiorama throws for a missing canvas and for a canvas that has
\* a Diorama, leaving the registry as it was; an association, once made, is
\* never changed, and every canvas has at most one Diorama.
C10_InvalidSetup ==
    /\ []RegistryConsistent
    /\ [][lastOp'.op = "initializeDiorama" =>
             /\ (lastOp'.canvas = Null \/ lastOp'.canvas \in DOMAIN canvases) =>
                   (lastOp'.threw /\ canvases' = canvases /\ dioramas' = dioramas)
             /\ \A c \in DOMAIN canvases :
                   c \in DOMAIN canvases' /\ canvases'[c] = canvases[c]]_vars

\* C10 witness: a call for a canvas that has a Diorama was refused after two
\* Dioramas had been made.
C10_Witness ==
    /\ lastOp.op = "initializeDiorama"
    /\ lastOp.threw
    /\ lastOp.canvas \in DOMAIN canvases
    /\ Len(dioramas) = 2

\* C11: while no canvas has been handed over, a tick updates no camera, runs
\* no render pass and requests no further tick, and a scene or actions message
\* is rejected with an error, leaving the scene, the actions and the host's
\* frame requests as they were.
C11_NoSurface ==
    [][canvas = Undefined =>
          /\ lastOp'.op = "animate" =>
                (lastOp'.scheduled = 0 /\ lastOp'.passes = 0 /\ camera' = camera)
          /\ lastOp'.op \in {"setScene", "setActions"} =>
                /\ lastOp'.threw
                /\ lastOp'.scheduled = 0
                /\ scene' = scene
                /\ actions' = actions
                /\ frameRequests' = frameRequests]_vars

\* C12: for every ray paint casts that hits a sphere, each channel of the
\* colour computePixelColor returns is at least 0, at most the channel of the
\* sphere's base colour (the intensity is at most 1) and at most 255.
C12_Clamped ==
    (canvas # Undefined /\ scene # Undefined) =>
        \A k \in 1..Len(paintCoords(canvas)) :
            LET p == paintCoords(canvas)[k]
                D == rayDirection(camera, canvas, p[1], p[2])
                h == closestHit(camera, scene, D, TMin, MAX_SAFE_INTEGER)
            IN  TruthyT(h) =>
                    \A j \in 1..3 :
                        /\ shade(camera, scene, D, h)[j] >= 0
                        /\ shade(camera, scene, D, h)[j]
                              <= scene.shapes[h.sphere].color[j] * Unit
                        /\ shade(camera, scene, D, h)[j] <= 255 * Unit

\* C13: once there is a camera, its position changes only in a tick that
\* starts with an active direction, and only in x and y; its z is 0 throughout.
C13_CameraFrame ==
    /\ [](camera # Undefined => camera.z = 0)
    /\ [][(camera # Undefined /\ camera' # camera) =>
             /\ lastOp'.op = "animate"
             /\ ~NoneActive(actions)
             /\ camera'.z = camera.z]_vars

\* C14: the host holds at most one frame callback of the worker, and holds one
\* exactly when animationRequestId is a handle; an actions message that
\* arrives while one is held requests no second callback and leaves the
\* baseline time stamp alone.
C14_OnePending ==
    /\ [](frameRequests <= 1 /\ (Truthy(animationRequestId) <=> frameRequests = 1))
    /\ [][(lastOp'.op = "setActions" /\ Truthy(animationRequestId)) =>
             /\ lastOp'.scheduled = 0
             /\ frameRequests' = frameRequests
             /\ animationRequestId' = animationRequestId
             /\ previousTimeStamp' = previousTimeStamp]_vars

\* C14 witness: an actions message arrived while a callback was held, later
\* than the baseline the driver had recorded.
C14_Witness ==
    /\ lastOp.op = "setActions"
    /\ lastOp.scheduled = 0
    /\ frameRequests = 1
    /\ previousTimeStamp # Undefined
    /\ previousTimeStamp.ms < clock

\* C15: an actions message that reaches the idle driver and leaves every
\* direction inactive requests no frame callback and leaves the driver idle.
C15_IdleStays ==
    [][(lastOp'.op = "setActions" /\ ~Truthy(animationRequestId)
            /\ NoneActive(actions')) =>
          /\ lastOp'.scheduled = 0
          /\ frameRequests' = frameRequests
          /\ ~Truthy(animationRequestId')]_vars

\* the driver is idle: no handle, and the host holds no callback
DriverIdle == ~Truthy(animationRequestId) /\ frameRequests = 0

-----------------------------------------------------------------------------
(* The same properties of the driver of a Diorama, under DioramaDriverSpec *)

\* the host holds at most one frame callback of a Diorama, one exactly when
\* its animationRequestId is a handle, and setAction on a running Diorama
\* requests none and keeps the baseline
Diorama_OnePending ==
    /\ [](\A i \in 1..Len(dioramas) :
             /\ dioramas[i].frameRequests <= 1
             /\ Truthy(dioramas[i].animationRequestId) <=> dioramas[i].frameRequests = 1)
    /\ [][\A i \in 1..Len(dioramas) :
             (lastOp'.op = "setAction" /\ Truthy(dioramas[i].animationRequestId)) =>
                 /\ dioramas'[i].frameRequests = dioramas[i].frameRequests
                 /\ dioramas'[i].previousTimeStamp = dioramas[i].previousTimeStamp]_vars

\* setAction on an idle Diorama that leaves every direction inactive requests
\* no frame callback
Diorama_IdleStays ==
    [][\A i \in 1..Len(dioramas) :
          (lastOp'.op = "setAction" /\ ~Truthy(dioramas[i].animationRequestId)
              /\ NoneActive(dioramas'[i].actions)) =>
              dioramas'[i].frameRequests = dioramas[i].frameRequests]_vars

\* a Diorama whose directions are all inactive becomes idle unless one is
\* activated again, by a tick that renders nothing and moves no camera
Diorama_ReleaseIdle ==
    /\ (Len(dioramas) >= 1 /\ NoneActive(dioramas[1].actions))
          ~> /\ Len(dioramas) >= 1
             /\ \/ (~Truthy(dioramas[1].animationRequestId)
                      /\ dioramas[1].frameRequests = 0)
                \/ ~NoneActive(dioramas[1].actions)
    /\ [][\A i \in 1..Len(dioramas) :
             (lastOp'.op = "Diorama.animate" /\ NoneActive(dioramas[i].actions)) =>
                 /\ dioramas'[i].frameRequests = 0
                 /\ dioramas'[i].animationRequestId = Null
                 /\ dioramas'[i].camera = dioramas[i].camera
                 /\ dioramas'[i].drawBuffer = dioramas[i].drawBuffer
                 /\ lastOp'.passes = 0]_vars

=============================================================================
